---- MODULE Spec2Model ----
(***************************************************************************)
(* Model of the entry-signal monitor of market_pattern_hunter               *)
(* (lib/entry-monitor.ts), its monitoring API routes and the market-data    *)
(* service it reads from (lib/stock-data.ts).                               *)
(*                                                                          *)
(* Prices and volumes are integers (prices in units of 10 cents, volumes in *)
(* thousands of shares).  Quantities the code computes as floating-point    *)
(* quotients are kept as exact fractions                                    *)
(* [n |-> numerator, d |-> denominator] with d > 0 and are compared by      *)
(* cross-multiplication, so no rounding is introduced by the model.         *)
(***************************************************************************)
EXTENDS Integers, Sequences, FiniteSets, Bags, TLC

\* ------------------------------------------------------------------------
\* Bounds of the model
\* ------------------------------------------------------------------------
\* number of asynchronous invocations (startMonitoring calls, timer
\* callbacks) that may be in flight at the same time
MaxTasks == 2
\* number of timer handles setInterval hands out in one behaviour
MaxTimers == 2

\* ------------------------------------------------------------------------
\* Exact fractions
\* ------------------------------------------------------------------------
Frac(n, d) == [n |-> n, d |-> d]

FracGeq(a, b) == a.n * b.d >= b.n * a.d

FracGt(a, b) == a.n * b.d > b.n * a.d

FracLt(a, b) == a.n * b.d < b.n * a.d

\* ------------------------------------------------------------------------
\* Price bars and windows
\* ------------------------------------------------------------------------
Bar(h, l, c, v) == [high |-> h, low |-> l, close |-> c, volume |-> v]

\* Array.prototype.slice(-k): the last k elements, all of them if fewer
SliceLast(data, k) ==
    IF Len(data) <= k THEN data ELSE SubSeq(data, Len(data) - k + 1, Len(data))

\* Array.prototype.slice(0, -k): everything but the last k elements
SliceDropLast(data, k) ==
    IF Len(data) <= k THEN << >> ELSE SubSeq(data, 1, Len(data) - k)

RECURSIVE SeqSum(_, _)
SeqSum(s, field) ==
    IF s = << >> THEN 0 ELSE Head(s)[field] + SeqSum(Tail(s), field)

SeqMax(s, field) ==
    CHOOSE m \in {s[i][field] : i \in DOMAIN s} :
        \A i \in DOMAIN s : s[i][field] <= m

SeqMin(s, field) ==
    CHOOSE m \in {s[i][field] : i \in DOMAIN s} :
        \A i \in DOMAIN s : s[i][field] >= m

NoSignal == [signalType |-> "none"]

\* a signal whose target and stop have changed places
SignalSwapped(type, conf, cur, target, stop) ==
    [signalType |-> type, confidence |-> conf, currentPrice |-> cur,
     targetPrice |-> stop, stopLoss |-> target]

Signal(type, conf, cur, target, stop) ==
    [signalType |-> type, confidence |-> conf, currentPrice |-> cur,
     targetPrice |-> target, stopLoss |-> stop]

\* ------------------------------------------------------------------------
\* The five signal strategies
\* ------------------------------------------------------------------------
\* the breakout strategy, were it to ask for the 10 bars it reads only
checkBreakoutSignalFrom10(data) ==
    IF Len(data) < 10 THEN NoSignal
    ELSE
      LET recent       == SliceLast(data, 10)
          currentPrice == recent[Len(recent)].close
          prior        == SliceDropLast(recent, 1)
          resistance   == SeqMax(prior, "high")
          volume       == recent[Len(recent)].volume
          sumVolume    == SeqSum(prior, "volume")
          \* volumeRatio = volume / (sumVolume / (recent.length - 1))
          ratio        == Frac(volume * Len(prior), sumVolume)
          bonus        == IF ratio.n * 10 > 15 * ratio.d THEN 15
                          ELSE IF ratio.n * 10 > 12 * ratio.d THEN 10
                          ELSE 5
          confidence   == IF 70 + bonus > 95 THEN 95 ELSE 70 + bonus
      IN  IF currentPrice * 100 >= resistance * 101
          THEN Signal("breakout", Frac(confidence, 1), Frac(currentPrice, 1),
                      Frac(currentPrice * 108, 100), Frac(resistance * 98, 100))
          ELSE NoSignal

checkBreakoutSignal(data) ==
    IF Len(data) < 20 THEN NoSignal
    ELSE
      LET recent       == SliceLast(data, 10)
          currentPrice == recent[Len(recent)].close
          prior        == SliceDropLast(recent, 1)
          resistance   == SeqMax(prior, "high")
          volume       == recent[Len(recent)].volume
          sumVolume    == SeqSum(prior, "volume")
          \* volumeRatio = volume / (sumVolume / (recent.length - 1))
          ratio        == Frac(volume * Len(prior), sumVolume)
          bonus        == IF ratio.n * 10 > 15 * ratio.d THEN 15
                          ELSE IF ratio.n * 10 > 12 * ratio.d THEN 10
                          ELSE 5
          confidence   == IF 70 + bonus > 95 THEN 95 ELSE 70 + bonus
      IN  IF currentPrice * 100 >= resistance * 101
          THEN Signal("breakout", Frac(confidence, 1), Frac(currentPrice, 1),
                      Frac(currentPrice * 108, 100), Frac(resistance * 98, 100))
          ELSE NoSignal

checkPivotSignal(data) ==
    IF Len(data) < 15 THEN NoSignal
    ELSE
      LET recent       == SliceLast(data, 8)
          currentPrice == recent[Len(recent)].close
          high         == SeqMax(recent, "high")
          low          == SeqMin(recent, "low")
          close        == recent[Len(recent)].close
          \* pivot = s3 / 3
          s3           == high + low + close
          support1     == Frac(2 * s3 - 3 * high, 3)
          resistance1  == Frac(2 * s3 - 3 * low, 3)
          \* distanceToPivot = |currentPrice - pivot| / pivot = dist / s3
          diff         == 3 * currentPrice - s3
          dist         == IF diff < 0 THEN 0 - diff ELSE diff
          \* 65 + (1 - distanceToPivot * 100) * 20
          raw          == Frac(85 * s3 - 2000 * dist, s3)
          confidence   == IF FracLt(Frac(85, 1), raw) THEN Frac(85, 1) ELSE raw
      IN  IF dist * 100 < s3 /\ 3 * currentPrice > s3
          THEN Signal("pivot", confidence, Frac(currentPrice, 1),
                      resistance1, support1)
          ELSE NoSignal

checkSupportSignal(data) ==
    IF Len(data) < 20 THEN NoSignal
    ELSE
      LET recent       == SliceLast(data, 15)
          currentPrice == recent[Len(recent)].close
          support      == SeqMin(SliceDropLast(recent, 5), "low")
          \* recent[recent.length - 2]?.close || currentPrice
          prevClose    == recent[Len(recent) - 1].close
          prevPrice    == IF prevClose = 0 THEN currentPrice ELSE prevClose
          isBouncing   == currentPrice > prevPrice
          \* 60 + ((currentPrice - support) / support) * 1000
          raw          == Frac(60 * support + 1000 * (currentPrice - support),
                               support)
          confidence   == IF FracLt(Frac(80, 1), raw) THEN Frac(80, 1) ELSE raw
      IN  IF /\ currentPrice * 100 <= support * 102
             /\ currentPrice >= support
             /\ isBouncing
          THEN Signal("support", confidence, Frac(currentPrice, 1),
                      Frac(support * 106, 100), Frac(support * 97, 100))
          ELSE NoSignal

checkVolumeSignal(data) ==
    IF Len(data) < 10 THEN NoSignal
    ELSE
      LET recent        == SliceLast(data, 10)
          currentPrice  == recent[Len(recent)].close
          currentVolume == recent[Len(recent)].volume
          prior         == SliceDropLast(recent, 1)
          sumVolume     == SeqSum(prior, "volume")
          \* volumeRatio = currentVolume / (sumVolume / (recent.length - 1))
          ratio         == Frac(currentVolume * Len(prior), sumVolume)
          prevClose     == recent[Len(recent) - 1].close
          change        == currentPrice - prevClose
          absChange     == IF change < 0 THEN 0 - change ELSE change
          \* (volumeRatio - 2) * 10
          extra         == Frac((ratio.n - 2 * ratio.d) * 10, ratio.d)
          capped        == IF FracLt(Frac(20, 1), extra) THEN Frac(20, 1)
                           ELSE extra
          raw           == Frac(70 * capped.d + capped.n, capped.d)
          confidence    == IF FracLt(Frac(90, 1), raw) THEN Frac(90, 1) ELSE raw
          isBullish     == change > 0
      IN  IF ratio.n > 2 * ratio.d /\ absChange * 100 > prevClose
          THEN Signal("volume_spike", confidence, Frac(currentPrice, 1),
                      IF isBullish THEN Frac(currentPrice * 105, 100)
                                   ELSE Frac(currentPrice * 95, 100),
                      IF isBullish THEN Frac(currentPrice * 97, 100)
                                   ELSE Frac(currentPrice * 103, 100))
          ELSE NoSignal

\* calculateMA: null when the window is shorter than the period
calculateMA(data, period) ==
    IF Len(data) < period THEN Frac(0, 1)
    ELSE Frac(SeqSum(SliceLast(data, period), "close"), period)

checkMovingAverageSignal(data) ==
    IF Len(data) < 50 THEN NoSignal
    ELSE
      LET recent         == SliceLast(data, 20)
          currentPrice   == recent[Len(recent)].close
          ma20           == calculateMA(recent, 20)
          ma50           == calculateMA(SliceLast(data, 50), 50)
          price          == Frac(currentPrice, 1)
          priceAboveMA20 == FracGt(price, ma20)
          priceAboveMA50 == FracGt(price, ma50)
          ma20AboveMA50  == FracGt(ma20, ma50)
          sum            == 65 + (IF ma20AboveMA50 THEN 10 ELSE 0)
                               + (IF priceAboveMA20 THEN 5 ELSE 0)
          confidence     == IF sum > 85 THEN 85 ELSE sum
          minMA          == IF FracLt(ma20, ma50) THEN ma20 ELSE ma50
      IN  IF ma20.n = 0 \/ ma50.n = 0 THEN NoSignal
          ELSE IF priceAboveMA20 /\ priceAboveMA50 /\ ma20AboveMA50
          THEN Signal("moving_average", Frac(confidence, 1), price,
                      Frac(currentPrice * 106, 100),
                      Frac(minMA.n * 98, minMA.d * 100))
          ELSE NoSignal

\* ReduceBest with the comparison reversed: the lowest confidence wins
RECURSIVE ReduceBestLowest(_, _)
ReduceBestLowest(best, rest) ==
    IF rest = << >> THEN best
    ELSE ReduceBestLowest(IF FracLt(Head(rest).confidence, best.confidence)
                          THEN Head(rest) ELSE best,
                          Tail(rest))

\* signals.reduce((best, current) =>
\*     current.confidence > best.confidence ? current : best)
RECURSIVE ReduceBest(_, _)
ReduceBest(best, rest) ==
    IF rest = << >> THEN best
    ELSE ReduceBest(IF FracGt(Head(rest).confidence, best.confidence)
                    THEN Head(rest) ELSE best,
                    Tail(rest))

\* const days = timeframe === '1h' ? 7 : timeframe === '4h' ? 14 : 30
WindowDays(timeframe) ==
    IF timeframe = "1h" THEN 7 ELSE IF timeframe = "4h" THEN 14 ELSE 30

\* the window analyzeTimeframe hands to the strategies: `days` is not
\* used, the window is the last 50 daily bars whatever the timeframe
RecentData(historicalData, timeframe) == SliceLast(historicalData, 50)

\* analyzeTimeframe once the market data has arrived; historicalData is
\* << >> when the service returned no bars
AnalyzeData(historicalData, timeframe) ==
    IF Len(historicalData) = 0 THEN NoSignal
    ELSE
      LET recentData == RecentData(historicalData, timeframe)
          all     == << checkBreakoutSignal(recentData),
                        checkPivotSignal(recentData),
                        checkSupportSignal(recentData),
                        checkVolumeSignal(recentData),
                        checkMovingAverageSignal(recentData) >>
          signals == SelectSeq(all, LAMBDA s : s.signalType # "none")
      IN  IF Len(signals) = 0 THEN NoSignal
          ELSE ReduceBest(Head(signals), Tail(signals))

\* ------------------------------------------------------------------------
\* Market data the service can hand to a check
\* ------------------------------------------------------------------------
\* 50 bars moving sideways: no strategy fires
QuietSeries == [i \in 1..50 |-> Bar(1010, 990, 1000, 500)]

\* 50 bars rising 10 cents a bar: pivot and moving-average signals fire
RisingSeries ==
    [i \in 1..50 |-> Bar(1005 + i, 995 + i, 1000 + i, 500)]

\* 50 bars with a small bounce off support on the last bar: a support
\* signal of confidence about 65
BounceSeries ==
    [i \in 1..50 |-> Bar(1010, 995, IF i = 49 THEN 999 ELSE 1000, 500)]

\* a young listing: 12 bars only
ShortSeries == [i \in 1..12 |-> Bar(1010, 990, 1000, 500)]

\* what yahooFinance.historical can return for a symbol
ProviderSeries == {<< >>, QuietSeries, RisingSeries, BounceSeries, ShortSeries}

\* what generateFallbackHistoricalData can produce: a random walk of 365
\* bars, of which the strategies see the tail
FallbackSeries == {QuietSeries, RisingSeries, BounceSeries}

\* getHistoricalData: the provider's bars, [] when the provider call throws
getHistoricalData(providerOk, series) == IF providerOk THEN series ELSE << >>

\* getStockData(symbol).historicalData: when quote() throws the service
\* answers with getFallbackStockData, whose bars are randomly generated
\* (fallback); otherwise with getHistoricalData
getStockData(quoteOk, historicalOk, series, fallback) ==
    IF quoteOk THEN getHistoricalData(historicalOk, series) ELSE fallback

\* ------------------------------------------------------------------------
\* State of the monitor and of its collaborators
\* ------------------------------------------------------------------------
\* the stock-scan ids the monitoring routes are called with
Instruments == {"s1", "s2"}

NoRecord == [exists |-> FALSE]

StockScan(hasVcp, entry) ==
    [exists |-> TRUE, hasVcpPattern |-> hasVcp, entrySignal |-> entry]

VARIABLES
    db,                  \* db.stockScan: id -> stored record or NoRecord
    config,              \* EntryMonitor.config
    monitoringIntervals, \* EntryMonitor.monitoringIntervals: id -> timer handle
    timers,              \* the runtime's interval timers, by handle:
                         \*   [id, interval] until clearInterval, then Cleared
    tasks,               \* bag of asynchronous invocations in flight, each
                         \*   suspended at the await named by its pc
    alertsSent,          \* calls of emailService.sendEntrySignalAlert, counted
                         \*   per timer handle (watch lifecycle) of the check,
                         \*   for the lifecycles that can still call it
    ev                   \* the step just taken, as the outside world sees it

\* the dashboard page (Home) and the scans it starts
VARIABLES
    scanningConfigId,    \* Home's state scanningConfigId: the scan lock
    startScans,          \* bag of startScan invocations awaiting their
                         \*   requests
    pollIntervals,       \* number of live poll timers of startScan
    scans                \* db.scan: the status of each scan, by creation

homeVars == << scanningConfigId, startScans, pollIntervals, scans >>

monitorVars ==
    << db, config, monitoringIntervals, timers, tasks, alertsSent >>

vars == << db, config, monitoringIntervals, timers, tasks, alertsSent, ev,
           scanningConfigId, startScans, pollIntervals, scans >>

\* constructor defaults of MonitoringConfig
DefaultCheckInterval == 15

DefaultMinConfidence == 70

DefaultMaxRiskPerTrade == 2

DefaultConfig ==
    [checkInterval |-> DefaultCheckInterval,
     timeframes |-> << "1h", "4h" >>,
     minConfidence |-> DefaultMinConfidence,
     maxRiskPerTrade |-> DefaultMaxRiskPerTrade,
     enableEmailAlerts |-> TRUE]

\* the partial configurations updateConfig is called with
ConfigUpdates == {[checkInterval |-> 5, enableEmailAlerts |-> FALSE]}

\* { ...this.config, ...newConfig }
MergeConfig(old, new) ==
    [f \in DOMAIN old |-> IF f \in DOMAIN new THEN new[f] ELSE old[f]]

EmptyMap == [y \in {} |-> 0]

\* a timer after clearInterval: it never fires again
Cleared == [live |-> FALSE]

Timer(x, interval) == [live |-> TRUE, id |-> x, interval |-> interval]

\* x has a registry entry
Watching(x) == x \in DOMAIN monitoringIntervals

\* the monitor's registry together with the timers it refers to
Mon == [intervals |-> monitoringIntervals, timers |-> timers]

\* stopMonitoring: clearInterval and delete, when the id has an entry
stopMonitoring(m, x) ==
    IF x \in DOMAIN m.intervals
    THEN [intervals |-> [y \in DOMAIN m.intervals \ {x} |-> m.intervals[y]],
          timers    |-> [m.timers EXCEPT ![m.intervals[x]] = Cleared]]
    ELSE m

\* StopRaises for a stopMonitoring that treats an id without entry as an
\* error ("not monitoring")
StopRaisesWhenIdle(m, x) == x \notin DOMAIN m.intervals

\* whether stopMonitoring throws: Map.get, clearInterval and Map.delete do
\* not, and the absent entry is skipped by `if (interval)`
StopRaises(m, x) == FALSE

\* stopAllMonitoring without the clearInterval loop: the map is cleared but
\* the timers keep firing
stopAllMonitoringMapOnly(m) == [intervals |-> EmptyMap, timers |-> m.timers]

\* stopAllMonitoring: clearInterval on every entry, then clear the map
stopAllMonitoring(m) ==
    [intervals |-> EmptyMap,
     timers    |-> [h \in DOMAIN m.timers |->
                      IF \E y \in DOMAIN m.intervals : m.intervals[y] = h
                      THEN Cleared
                      ELSE m.timers[h]]]

\* RegisterInterval without the stopMonitoring call of line 64: the timer
\* of an existing entry is overwritten in the map but never cleared
RegisterIntervalNoStop(m, x, interval) ==
    [intervals |-> [y \in DOMAIN m.intervals \cup {x} |->
                      IF y = x THEN Len(m.timers) + 1 ELSE m.intervals[y]],
     timers    |-> Append(m.timers, Timer(x, interval))]

\* RegisterInterval arming the timer at the constructor's default instead
\* of the interval of the current configuration
RegisterIntervalDefault(m, x, interval) ==
    LET s == stopMonitoring(m, x)
    IN  [intervals |-> [y \in DOMAIN s.intervals \cup {x} |->
                          IF y = x THEN Len(s.timers) + 1 ELSE s.intervals[y]],
         timers    |-> Append(s.timers, Timer(x, 15))]

\* startMonitoring after its lookup: stop the existing entry, setInterval,
\* monitoringIntervals.set
RegisterInterval(m, x, interval) ==
    LET s == stopMonitoring(m, x)
        h == Len(s.timers) + 1
    IN  [intervals |-> [y \in DOMAIN s.intervals \cup {x} |->
                          IF y = x THEN h ELSE s.intervals[y]],
         timers    |-> Append(s.timers, Timer(x, interval))]

\* the guard of startMonitoring: !stockScan || !stockScan.hasVcpPattern
Eligible(rec) == rec.exists /\ rec.hasVcpPattern

\* how startMonitoring settles when an error was raised in its body: the
\* catch block logs it and the promise resolves
StartSettles(errorRaised) == "resolved"

\* the POST route of /monitoring/start: 500 only if the awaited call rejects
RouteStatus(settled) == IF settled = "rejected" THEN 500 ELSE 200

\* the POST route of /monitoring/stop
StopRouteStatus(raised) == IF raised THEN 500 ELSE 200

\* the loop condition of checkForEntrySignals
Qualifies(signal, cfg) ==
    /\ signal.signalType # "none"
    /\ FracGeq(signal.confidence, Frac(cfg.minConfidence, 1))

\* AlertDue for a handler that sends the alert whatever the configuration
AlertDueAlways(cfg) == TRUE

\* handleEntrySignal sends the alert only if (this.config.enableEmailAlerts)
AlertDue(cfg) == cfg.enableEmailAlerts

\* the registry after handleEntrySignal has returned, normally or through
\* its own catch block: checkForEntrySignals stops monitoring either way
AfterHandle(m, x, failed) == stopMonitoring(m, x)

\* AfterRecordGone for a check that returns on a missing record without
\* stopping the monitor
AfterRecordGoneKeeps(m, x) == m

\* the registry after a check that found no stored record
AfterRecordGone(m, x) == stopMonitoring(m, x)

\* the registry after a check that raised an error caught at its boundary
AfterCheckError(m, x) == m

\* AfterNoSignal for a check that schedules its own next run: it arms a
\* timer for x when it ends without a signal
AfterNoSignalRearm(m, x) ==
    [intervals |-> [y \in DOMAIN m.intervals \cup {x} |->
                      IF y = x THEN Len(m.timers) + 1 ELSE m.intervals[y]],
     timers    |-> Append(m.timers, Timer(x, config.checkInterval))]

\* the registry after a check in which no timeframe qualified
AfterNoSignal(m, x) == m

\* a timer callback may start while an earlier check of the same id is
\* still suspended: setInterval does not wait for the async callback
TickAllowed(x, inFlight) == TRUE

\* ------------------------------------------------------------------------
\* Tasks
\* ------------------------------------------------------------------------
\* kind: "api" (startMonitoring awaited by the route), "restart"
\* (startMonitoring called, not awaited, by updateConfig) or "tick" (timer
\* callback).  lc: the timer handle the invocation belongs to, 0 before
\* registration.  rest: the timeframes the loop has not finished.
\* stopped: bookkeeping, not program state: stopMonitoring(id) or
\* stopAllMonitoring() was called from outside the checks (by a route or by
\* updateConfig) while this check was in flight, and no startMonitoring has
\* registered the id since.
Task(kind, x, pc, lc, rest, sig) ==
    [kind |-> kind, id |-> x, pc |-> pc, lc |-> lc, rest |-> rest, sig |-> sig,
     stopped |-> FALSE]

\* ImmediateCheck for a startMonitoring that does not await its first
\* check: the check runs detached, like a timer callback
ImmediateCheckDetached(kind, x, h) ==
    Task("tick", x, "find", h, << >>, NoSignal)

\* await this.checkForEntrySignals(stockScanId) in startMonitoring: the
\* invocation goes on as the immediate check, up to its store lookup
ImmediateCheck(kind, x, h) == Task(kind, x, "find", h, << >>, NoSignal)

TaskSet == BagToSet(tasks)

AddTask(b, t) == b (+) SetToBag({t})

RemoveTask(b, t) == b (-) SetToBag({t})

InCheck(t) == t.pc \in {"find", "fetch", "update", "send"}

\* the bag b with t.stopped set to flag in every check of an id in ids
RECURSIVE MarkStopped(_, _, _)
MarkStopped(b, ids, flag) ==
    LET hit == {t \in BagToSet(b) :
                  t.id \in ids /\ InCheck(t) /\ t.stopped # flag}
    IN  IF hit = {} THEN b
        ELSE LET t == CHOOSE u \in hit : TRUE
                 n == CopiesIn(t, b)
                 moved == [u \in {[t EXCEPT !.stopped = flag]} |-> n]
             IN  MarkStopped((b (-) [u \in {t} |-> n]) (+) moved, ids, flag)

\* number of checks of x in flight
ChecksInFlight(x) ==
    LET S == {t \in TaskSet : t.id = x /\ InCheck(t)}
    IN  BagCardinality([t \in S |-> tasks[t]])

Event(type, x) == [type |-> type, id |-> x]

Step(type) == [type |-> type]

\* a watch lifecycle can still send alerts while its timer is live or one of
\* its checks is in flight; the count of a finished lifecycle is dropped
InProgress(h) == timers'[h].live \/ \E t \in BagToSet(tasks') : t.lc = h

KeepAlerts(alerts) ==
    alertsSent' = [h \in DOMAIN alerts |-> IF InProgress(h) THEN alerts[h] ELSE 0]

\* the page as it is mounted: no lock, no request, no scan
HomeInit ==
    /\ scanningConfigId = "null"
    /\ startScans = EmptyBag
    /\ pollIntervals = 0
    /\ scans = << >>

Init ==
    /\ HomeInit
    /\ db \in [Instruments -> {StockScan(TRUE, FALSE), StockScan(FALSE, FALSE)}]
    /\ db["s1"] = StockScan(TRUE, FALSE)
    /\ config = DefaultConfig
    /\ monitoringIntervals = EmptyMap
    /\ timers = << >>
    /\ tasks = EmptyBag
    /\ alertsSent = << >>
    /\ ev = Step("init")

\* ------------------------------------------------------------------------
\* Calls from the API layer
\* ------------------------------------------------------------------------
SetMon(m) ==
    /\ monitoringIntervals' = m.intervals
    /\ timers' = m.timers

\* POST /monitoring/start: startMonitoring runs up to its first await, the
\* store lookup
StartCall(x) ==
    /\ UNCHANGED homeVars
    /\ BagCardinality(tasks) < MaxTasks
    /\ tasks' = AddTask(tasks, Task("api", x, "lookup", 0, << >>, NoSignal))
    /\ ev' = Step("startCalled")
    /\ UNCHANGED << db, config, monitoringIntervals, timers, alertsSent >>

\* the lookup of startMonitoring throws, or finds no eligible record: the
\* error is raised inside the try block and the call settles
StartFails(t) ==
    /\ UNCHANGED homeVars
    /\ t.pc = "lookup"
    /\ \E readOk \in BOOLEAN :
         /\ ~readOk \/ ~Eligible(db[t.id])
         /\ ev' = [type |-> "startFailed", id |-> t.id, kind |-> t.kind,
                   reason |-> IF readOk THEN "notEligible" ELSE "storeError",
                   settled |-> StartSettles(TRUE),
                   status |-> IF t.kind = "api"
                              THEN RouteStatus(StartSettles(TRUE)) ELSE 0]
    /\ tasks' = RemoveTask(tasks, t)
    /\ UNCHANGED << db, config, monitoringIntervals, timers, alertsSent >>

\* the lookup of startMonitoring finds an eligible record: the existing
\* entry is stopped, a timer is registered and the immediate check runs up
\* to its own store lookup
StartRegisters(t) ==
    /\ UNCHANGED homeVars
    /\ t.pc = "lookup"
    /\ Eligible(db[t.id])
    /\ Len(timers) < MaxTimers
    /\ LET m == RegisterInterval(Mon, t.id, config.checkInterval)
       IN  /\ SetMon(m)
           /\ tasks' = AddTask(MarkStopped(RemoveTask(tasks, t), {t.id}, FALSE),
                               ImmediateCheck(t.kind, t.id, m.intervals[t.id]))
    /\ ev' = [type |-> "registered", id |-> t.id, kind |-> t.kind,
              replaced |-> t.id \in DOMAIN monitoringIntervals]
    /\ UNCHANGED << db, config >>
    /\ KeepAlerts(Append(alertsSent, 0))

\* POST /monitoring/stop: stopMonitoring is synchronous; the route answers
\* 500 only if it throws
StopCall(x) ==
    /\ UNCHANGED homeVars
    /\ SetMon(stopMonitoring(Mon, x))
    /\ ev' = [type |-> "stopCalled", id |-> x,
              active |-> x \in DOMAIN monitoringIntervals,
              status |-> StopRouteStatus(StopRaises(Mon, x))]
    /\ tasks' = MarkStopped(tasks, {x}, TRUE)
    /\ UNCHANGED << db, config >>
    /\ KeepAlerts(alertsSent)

StopAllCall ==
    /\ UNCHANGED homeVars
    /\ SetMon(stopAllMonitoring(Mon))
    /\ ev' = [type |-> "stopAllCalled", active |-> DOMAIN monitoringIntervals]
    /\ tasks' = MarkStopped(tasks, Instruments, TRUE)
    /\ UNCHANGED << db, config >>
    /\ KeepAlerts(alertsSent)

RECURSIVE StopEach(_, _)
StopEach(m, ids) ==
    IF ids = {} THEN m
    ELSE LET x == CHOOSE y \in ids : TRUE
         IN  StopEach(stopMonitoring(m, x), ids \ {x})

\* updateConfig: merge, then stopMonitoring and an unawaited startMonitoring
\* for every id that has an entry
UpdateConfig(p) ==
    LET active == DOMAIN monitoringIntervals
    IN  /\ BagCardinality(tasks) + Cardinality(active) <= MaxTasks
        /\ config' = MergeConfig(config, p)
        /\ SetMon(StopEach(Mon, active))
        /\ tasks' = MarkStopped(tasks, active, TRUE)
                       (+) SetToBag({Task("restart", x, "lookup", 0,
                                          << >>, NoSignal) : x \in active})
        /\ ev' = [type |-> "configUpdated", active |-> active]
        /\ UNCHANGED db
        /\ UNCHANGED homeVars
        /\ KeepAlerts(alertsSent)

\* ------------------------------------------------------------------------
\* Timer callbacks and the check
\* ------------------------------------------------------------------------
\* a live timer fires: checkForEntrySignals runs up to its store lookup
Tick(h) ==
    /\ UNCHANGED homeVars
    /\ h \in DOMAIN timers
    /\ timers[h].live
    /\ TickAllowed(timers[h].id, ChecksInFlight(timers[h].id))
    /\ BagCardinality(tasks) < MaxTasks
    /\ tasks' = AddTask(tasks, Task("tick", timers[h].id, "find", h,
                                    << >>, NoSignal))
    /\ ev' = Step("tick")
    /\ UNCHANGED << db, config, monitoringIntervals, timers, alertsSent >>

\* the step in which a check ends; an "api" task then returns to the route
Ended(type, t) ==
    [type |-> type, id |-> t.id, kind |-> t.kind, stopped |-> t.stopped,
     status |-> IF t.kind = "api" THEN RouteStatus("resolved") ELSE 0]

\* the store lookup of the check throws: caught at the end of the check
CheckReadFails(t) ==
    /\ UNCHANGED homeVars
    /\ t.pc = "find"
    /\ SetMon(AfterCheckError(Mon, t.id))
    /\ tasks' = RemoveTask(tasks, t)
    /\ ev' = Ended("checkError", t)
    /\ UNCHANGED << db, config >>
    /\ KeepAlerts(alertsSent)

\* the record no longer exists: stop monitoring and return
CheckRecordGone(t) ==
    /\ UNCHANGED homeVars
    /\ t.pc = "find"
    /\ ~db[t.id].exists
    /\ SetMon(AfterRecordGone(Mon, t.id))
    /\ tasks' = RemoveTask(tasks, t)
    /\ ev' = Ended("recordGone", t) @@ [watching |-> Watching(t.id)]
    /\ UNCHANGED << db, config >>
    /\ KeepAlerts(alertsSent)

\* the record is there: enter the loop over config.timeframes and await the
\* market data of the first one
CheckFinds(t) ==
    /\ UNCHANGED homeVars
    /\ t.pc = "find"
    /\ db[t.id].exists
    /\ IF config.timeframes = << >>
       THEN /\ SetMon(AfterNoSignal(Mon, t.id))
            /\ tasks' = RemoveTask(tasks, t)
            /\ ev' = Ended("noSignal", t)
       ELSE /\ tasks' = AddTask(RemoveTask(tasks, t),
                                [t EXCEPT !.pc = "fetch",
                                          !.rest = config.timeframes])
            /\ ev' = Step("found")
            /\ UNCHANGED << monitoringIntervals, timers >>
    /\ UNCHANGED << db, config >>
    /\ KeepAlerts(alertsSent)

\* how the market data of one analyzeTimeframe call came about
DataSource(quoteOk, historicalOk, series) ==
    IF ~quoteOk THEN "quoteFailed"
    ELSE IF ~historicalOk THEN "historicalFailed"
    ELSE IF series = << >> THEN "emptySeries"
    ELSE "provider"

\* analyzeTimeframe: every way getStockData can settle for a timeframe,
\* with the signal the strategies then return
analyzeTimeframe(timeframe) ==
    {[source |-> DataSource(quoteOk, historicalOk, series),
      signal |-> AnalyzeData(getStockData(quoteOk, historicalOk, series,
                                          fallback), timeframe)] :
        quoteOk \in BOOLEAN, historicalOk \in BOOLEAN,
        series \in ProviderSeries, fallback \in FallbackSeries}

\* the timeframes a configuration can name
Timeframes == {"1h", "4h", "1d"}

AnalysisOutcomes == [tf \in Timeframes |-> analyzeTimeframe(tf)]

\* getStockData settles for the timeframe at the head of the loop;
\* analyzeTimeframe returns its best signal and the loop either hands it to
\* handleEntrySignal (which runs up to its store write), goes on to the
\* next timeframe, or ends
CheckAnalyzes(t) ==
    /\ UNCHANGED homeVars
    /\ t.pc = "fetch"
    /\ \E outcome \in AnalysisOutcomes[Head(t.rest)] :
         LET signal == outcome.signal
             source == outcome.source
         IN  IF Qualifies(signal, config)
             THEN /\ tasks' = AddTask(RemoveTask(tasks, t),
                                      [t EXCEPT !.pc = "update",
                                                !.sig = signal])
                  /\ ev' = [type |-> "signal", source |-> source,
                            signal |-> signal]
                  /\ UNCHANGED << monitoringIntervals, timers >>
             ELSE IF Len(t.rest) > 1
             THEN /\ tasks' = AddTask(RemoveTask(tasks, t),
                                      [t EXCEPT !.rest = Tail(t.rest)])
                  /\ ev' = [type |-> "nextTimeframe", source |-> source,
                            signal |-> signal]
                  /\ UNCHANGED << monitoringIntervals, timers >>
             ELSE /\ SetMon(AfterNoSignal(Mon, t.id))
                  /\ tasks' = RemoveTask(tasks, t)
                  /\ ev' = Ended("noSignal", t)
                              @@ [source |-> source, signal |-> signal]
    /\ UNCHANGED << db, config >>
    /\ KeepAlerts(alertsSent)

\* db.stockScan.update settles inside handleEntrySignal.  On success the
\* alert is sent if alerts are enabled (the call is awaited); otherwise, and
\* on failure (caught inside handleEntrySignal), the handler returns and
\* checkForEntrySignals stops monitoring
CheckPersists(t) ==
    /\ UNCHANGED homeVars
    /\ t.pc = "update"
    /\ \E writeOk \in BOOLEAN :
         IF writeOk /\ db[t.id].exists
         THEN /\ db' = [db EXCEPT ![t.id].entrySignal = TRUE]
              /\ IF AlertDue(config)
                 THEN /\ tasks' = AddTask(RemoveTask(tasks, t),
                                          [t EXCEPT !.pc = "send"])
                      /\ ev' = Event("alertCalled", t.id)
                      /\ UNCHANGED << monitoringIntervals, timers >>
                      /\ KeepAlerts([alertsSent EXCEPT ![t.lc] = @ + 1])
                 ELSE /\ SetMon(AfterHandle(Mon, t.id, FALSE))
                      /\ tasks' = RemoveTask(tasks, t)
                      /\ ev' = Ended("handled", t) @@ [alerted |-> FALSE]
                      /\ KeepAlerts(alertsSent)
         ELSE /\ SetMon(AfterHandle(Mon, t.id, TRUE))
              /\ tasks' = RemoveTask(tasks, t)
              /\ ev' = Ended("writeFailed", t)
              /\ UNCHANGED db
              /\ KeepAlerts(alertsSent)
    /\ UNCHANGED config

\* emailService.sendEntrySignalAlert settles; a rejection is caught inside
\* handleEntrySignal; either way checkForEntrySignals stops monitoring
CheckAlertSettles(t) ==
    /\ UNCHANGED homeVars
    /\ t.pc = "send"
    /\ \E sendOk \in BOOLEAN :
         /\ SetMon(AfterHandle(Mon, t.id, ~sendOk))
         /\ ev' = Ended(IF sendOk THEN "handled" ELSE "alertFailed", t)
                     @@ [alerted |-> TRUE]
    /\ tasks' = RemoveTask(tasks, t)
    /\ UNCHANGED << db, config >>
    /\ KeepAlerts(alertsSent)

\* ------------------------------------------------------------------------
\* The scans route, which deletes the stored records (the scan pipeline
\* creates each record under a fresh id, before the monitor is asked to
\* watch it: Init)
\* ------------------------------------------------------------------------
\* DELETE /scans: db.stockScan.deleteMany({})
ScansDeleted ==
    /\ UNCHANGED homeVars
    /\ \E x \in Instruments : db[x].exists
    /\ db' = [x \in Instruments |-> NoRecord]
    /\ ev' = Step("scansDeleted")
    /\ UNCHANGED << config, monitoringIntervals, timers, tasks, alertsSent >>

Next ==
    \/ \E x \in Instruments : StartCall(x)
    \/ \E x \in Instruments : StopCall(x)
    \/ StopAllCall
    \/ \E p \in ConfigUpdates : UpdateConfig(p)
    \/ \E h \in DOMAIN timers : Tick(h)
    \/ \E t \in TaskSet : StartFails(t)
    \/ \E t \in TaskSet : StartRegisters(t)
    \/ \E t \in TaskSet : CheckReadFails(t)
    \/ \E t \in TaskSet : CheckRecordGone(t)
    \/ \E t \in TaskSet : CheckFinds(t)
    \/ \E t \in TaskSet : CheckAnalyzes(t)
    \/ \E t \in TaskSet : CheckPersists(t)
    \/ \E t \in TaskSet : CheckAlertSettles(t)
    \/ ScansDeleted

Spec == Init /\ [][Next]_vars

TypeOK ==
    /\ DOMAIN monitoringIntervals \subseteq Instruments
    /\ \A x \in DOMAIN monitoringIntervals :
         monitoringIntervals[x] \in DOMAIN timers
    /\ Len(alertsSent) = Len(timers)
    /\ BagCardinality(tasks) <= MaxTasks
    /\ Len(timers) <= MaxTimers

\* ------------------------------------------------------------------------
\* The pattern analyzer (VCPDetector, lib/stock-data.ts)
\* ------------------------------------------------------------------------
\* Prices are integers, in tenths of a dollar.  The two volatilities are
\* square roots; they are held as their squares, exact fractions, and the
\* score, which depends on their quotient, is found by comparing squares.
\* Comparisons of JavaScript quotients are made by cross-multiplication of
\* non-negative integers.  A strict comparison written this way is also
\* right when the divisor is 0: x/0 is Infinity for x > 0 and NaN for
\* x = 0, and every strict comparison with NaN is false.

\* a price point with its timestamp
Point(date, h, l, c, v) ==
    [date |-> date, high |-> h, low |-> l, close |-> c, volume |-> v]

\* data.slice(from, to) for 0-based from (inclusive) and to (exclusive),
\* both already non-negative
Slice(data, from, to) ==
    LET a == IF from < Len(data) THEN from ELSE Len(data)
        b == IF to < Len(data) THEN to ELSE Len(data)
    IN  IF a < b THEN SubSeq(data, a + 1, b) ELSE << >>

\* the series left in the order it came in
KeepOrder(data) == data

\* [...data].sort((a, b) => a.date.getTime() - b.date.getTime()): the sort
\* is stable, so a point comes after every point that has an earlier date
\* and after every point of the same date that stood before it
SortByDate(data) ==
    LET n == Len(data)
        Before(j, i) ==
            \/ data[j].date < data[i].date
            \/ data[j].date = data[i].date /\ j < i
        rank == SubSeq([i \in 1..n |->
                          Cardinality({j \in 1..n : Before(j, i)}) + 1], 1, n)
    IN  SubSeq([k \in 1..n |-> data[CHOOSE i \in 1..n : rank[i] = k]], 1, n)

\* checkUptrend: average close of the last 20 bars more than 5% above the
\* average close of the 20 bars before the last 30
checkUptrend(data) ==
    IF Len(data) < 50 THEN FALSE
    ELSE LET recent == SliceLast(data, 20)
             older  == Slice(data, Len(data) - 50, Len(data) - 30)
         IN  SeqSum(recent, "close") * Len(older) * 100
               > SeqSum(older, "close") * Len(recent) * 105

\* the test of findBases on the 20-bar window around index i (0-based):
\* range / avgPrice < 0.08
IsBase(data, i) ==
    LET window == Slice(data, i - 10, i + 10)
        range  == SeqMax(window, "high") - SeqMin(window, "low")
    IN  range * Len(window) * 100 < 8 * SeqSum(window, "close")

\* findBases(data).length: the loop runs for 10 <= i < data.length - 10
findBases(data) == Cardinality({i \in 10..(Len(data) - 11) : IsBase(data, i)})

Abs(a) == IF a < 0 THEN -a ELSE a

RECURSIVE GCD(_, _)
GCD(a, b) == IF b = 0 THEN Abs(a) ELSE GCD(b, Abs(a) % Abs(b))

LCM(a, b) == (Abs(a) \div GCD(a, b)) * Abs(b)

RECURSIVE Total(_)
Total(s) == IF s = << >> THEN 0 ELSE s[1] + Total(Tail(s))

\* the closes the returns of the last 20 bars are divided by
ReturnDivisors(data) ==
    LET recent == SliceLast(data, 20)
    IN  [i \in 1..(Len(recent) - 1) |-> recent[i].close]

RECURSIVE ReturnUnit(_)
\* the common denominator of these returns
ReturnUnit(divisors) ==
    IF divisors = << >> THEN 1
    ELSE LCM(divisors[1], ReturnUnit(Tail(divisors)))

\* the returns (recent[i].close - recent[i-1].close) / recent[i-1].close of
\* the last `period` bars, as multiples of 1 / unit
Returns(data, period, unit) ==
    LET recent == SliceLast(data, period)
    IN  SubSeq([i \in 1..(Len(recent) - 1) |->
                  (recent[i + 1].close - recent[i].close)
                     * (unit \div recent[i].close)],
               1, Len(recent) - 1)

\* the variance of the returns, as a fraction of 1 / unit^2:
\* sum((r - mean)^2) / n = (n * sum(r^2) - sum(r)^2) / n^2
Variance(returns) ==
    LET n == Len(returns)
    IN  IF n = 0 THEN Frac(0, 1)
        ELSE Frac(n * Total([i \in 1..n |-> returns[i] * returns[i]])
                    - Total(returns) * Total(returns),
                  n * n)

\* a fraction in lowest terms
Reduced(a) ==
    LET g == GCD(a.n, a.d)
    IN  IF g = 0 THEN a ELSE Frac(a.n \div g, a.d \div g)

\* contraction = 0: longVol is not above 0
NoContraction == [zero |-> TRUE, ratioSq |-> Frac(1, 1)]

\* calculateVolatilityContraction(data).contraction, which is
\* longVol > 0 ? (1 - shortVol / longVol) * 100 : 0, held as the square of
\* shortVol / longVol (the factor sqrt(252) cancels). A close of 0 among the
\* divisors makes a return infinite or NaN and the variance NaN, and
\* NaN > 0 is false; so is 0 > 0 when no close of the last 20 bars moved.
\* The medium volatility only feeds the trend, which no caller reads.
calculateVolatilityContraction(data) ==
    LET divisors == ReturnDivisors(data)
    IN  IF \E i \in 1..Len(divisors) : divisors[i] = 0 THEN NoContraction
        ELSE LET unit     == ReturnUnit(divisors)
                 longVar  == Variance(Returns(data, 20, unit))
                 shortVar == Variance(Returns(data, 5, unit))
                 g        == GCD(shortVar.n, longVar.n)
                 h        == GCD(shortVar.d, longVar.d)
             IN  IF longVar.n = 0 THEN NoContraction
                 ELSE [zero |-> FALSE,
                       ratioSq |->
                          Reduced(Frac((shortVar.n \div g) * (longVar.d \div h),
                                       (longVar.n \div g) * (shortVar.d \div h)))]

\* calculatePriceTightness(data).score, with
\* tightness = (1 - range / avgPrice) * 100 over the last 10 bars
calculatePriceTightness(data) ==
    LET recent == SliceLast(data, 10)
        range  == SeqMax(recent, "high") - SeqMin(recent, "low")
        sum    == SeqSum(recent, "close")
        n      == Len(recent)
    IN  IF n < 5 THEN 0
        ELSE IF range * n * 100 < 15 * sum THEN 90
        ELSE IF range * n * 100 < 30 * sum THEN 75
        ELSE IF range * n * 100 < 50 * sum THEN 50
        ELSE 25

\* analyzeVolume(data).dryUp: volumeRatio < 0.7
analyzeVolume(data) ==
    LET recent == SliceLast(data, 20)
        older  == Slice(data, Len(data) - 40, Len(data) - 20)
    IN  IF Len(recent) = 0 \/ Len(older) = 0 THEN FALSE
        ELSE SeqSum(recent, "volume") * Len(older) * 10
               < 7 * SeqSum(older, "volume") * Len(recent)

\* assessBreakoutPotential(data).score
assessBreakoutPotential(data) ==
    LET recent == SliceLast(data, 10)
    IN  IF Len(recent) < 5 THEN 0
        ELSE
          LET currentPrice == recent[Len(recent)].close
              before       == SliceDropLast(recent, 1)
              resistance   == SeqMax(before, "high")
              support      == SeqMin(before, "low")
              range        == resistance - support
              near2 == 100 * (resistance - currentPrice) < 2 * currentPrice
              near5 == 100 * (resistance - currentPrice) < 5 * currentPrice
          IN  IF near2 /\ 10 * (currentPrice - support) > 7 * range THEN 85
              ELSE IF near5 /\ 10 * (currentPrice - support) > 6 * range
              THEN 70
              ELSE IF 10 * (currentPrice - support) > 5 * range THEN 50
              ELSE 30

EntryPoint(type, price, confidence) ==
    [type |-> type, price |-> price, confidence |-> confidence]

\* the entry points in the opposite order
SortByConfidenceAscending(points) ==
    [i \in 1..Len(points) |-> points[Len(points) + 1 - i]]

\* the position at which an entry point is inserted into a sequence sorted
\* by confidence descending (the sort is stable)
RECURSIVE InsertByConfidence(_, _)
InsertByConfidence(sorted, e) ==
    IF sorted = << >> THEN << e >>
    ELSE IF sorted[Len(sorted)].confidence >= e.confidence
    THEN Append(sorted, e)
    ELSE Append(InsertByConfidence(SubSeq(sorted, 1, Len(sorted) - 1), e),
                sorted[Len(sorted)])

\* entryPoints.sort((a, b) => b.confidence - a.confidence)
RECURSIVE SortByConfidence(_)
SortByConfidence(points) ==
    IF points = << >> THEN << >>
    ELSE InsertByConfidence(SortByConfidence(SubSeq(points, 1, Len(points) - 1)),
                            points[Len(points)])

\* findEntryPoints: breakout above resistance, pivot at the current close,
\* bounce off support, over the last 20 bars
findEntryPoints(data) ==
    LET recent == SliceLast(data, 20)
    IN  IF Len(recent) < 10 THEN << >>
        ELSE
          LET currentPrice == recent[Len(recent)].close
              before       == SliceDropLast(recent, 1)
              resistance   == SeqMax(before, "high")
              support      == SeqMin(before, "low")
              breakout == IF 100 * resistance > 101 * currentPrice
                          THEN << EntryPoint("breakout",
                                             Frac(101 * resistance, 100), 75) >>
                          ELSE << >>
              pivot    == << EntryPoint("pivot", Frac(currentPrice, 1), 60) >>
              bounce   == IF 100 * support < 98 * currentPrice
                          THEN << EntryPoint("support",
                                             Frac(99 * support, 100), 45) >>
                          ELSE << >>
          IN  SortByConfidence(breakout \o pivot \o bounce)

\* whether Math.round(base + Math.min(20, contraction * 0.4)) >= s in exact
\* arithmetic, for base = base4 / 4 and contraction = (1 - ratio) * 100:
\* s <= base + 20.5 and 160 * ratio <= base4 + 162 - 4 * s
ScoreAtLeast(base4, ratioSq, s) ==
    LET x == base4 + 162 - 4 * s
    IN  /\ 4 * s <= base4 + 82
        /\ x >= 0
        /\ 25600 * ratioSq.n <= x * x * ratioSq.d

\* whether base + Math.min(20, contraction * 0.4) lies exactly on the half
\* that rounds up to s, where the rounding errors of the square roots decide
ScoreOnTheEdge(base4, ratioSq, s) ==
    LET x == base4 + 162 - 4 * s
    IN  /\ x >= 0
        /\ 25600 * ratioSq.n = x * x * ratioSq.d

\* calculateVCPScore: the scores it can return
calculateVCPScore(uptrend, bases, volatility, tightness, dryUp, breakout) ==
    LET s1 == IF uptrend THEN 20 ELSE 0
        s2 == IF bases * 8 < 25 THEN bases * 8 ELSE 25
        s5 == IF dryUp THEN 10 ELSE 0
        \* four times the score without the volatility term:
        \* tightness * 0.15 and breakout * 0.1 are multiples of 0.25
        base4 == 4 * (s1 + s2 + s5) + (tightness * 3) \div 5
                    + (breakout * 2) \div 5
        reach == {s \in -100..100 :
                     ScoreAtLeast(base4, volatility.ratioSq, s)}
        score == CHOOSE s \in reach : \A t \in reach : t <= s
        Cap(v) == IF v > 100 THEN 100 ELSE v
    IN  IF volatility.zero THEN {Cap((base4 + 2) \div 4)}
        ELSE IF ScoreOnTheEdge(base4, volatility.ratioSq, score)
        THEN {Cap(score), Cap(score - 1)}
        ELSE {Cap(score)}

\* const hasPattern = score > 60
HasPattern(score) == score > 60

\* the result analyzeVCP returns for fewer than 50 points
InsufficientData ==
    [hasPattern |-> FALSE, score |-> 0, baseCount |-> 0,
     volatilityContraction |-> NoContraction, priceTightness |-> 0,
     volumeDryUp |-> FALSE, breakoutPotential |-> 0, entryPoints |-> << >>,
     description |-> << "Insufficient data for analysis" >>]

\* generateDescription, with the numbers it prints kept as such
generateDescription(hasPattern, score, bases) ==
    IF ~hasPattern
    THEN << "No VCP pattern detected. Stock does not meet the criteria for Volatility Contraction Pattern." >>
    ELSE << "VCP pattern detected", score, bases >>

\* the scores analyzeVCP can compute for 50 points or more
VCPScores(recentData) ==
    calculateVCPScore(checkUptrend(recentData), findBases(recentData),
                      calculateVolatilityContraction(recentData),
                      calculatePriceTightness(recentData),
                      analyzeVolume(recentData),
                      assessBreakoutPotential(recentData))

\* the result analyzeVCP returns for 50 points or more, given the score
VCPResult(recentData, score) ==
    [hasPattern |-> HasPattern(score), score |-> score,
     baseCount |-> findBases(recentData),
     volatilityContraction |-> calculateVolatilityContraction(recentData),
     priceTightness |-> calculatePriceTightness(recentData),
     volumeDryUp |-> analyzeVolume(recentData),
     breakoutPotential |-> assessBreakoutPotential(recentData),
     entryPoints |-> findEntryPoints(recentData),
     description |-> generateDescription(HasPattern(score), score,
                                         findBases(recentData))]

\* TooFew for an analyzer that asks for 40 points only
TooFewBelow40(data) == Len(data) < 40

\* if (data.length < 50)
TooFew(data) == Len(data) < 50

\* analyzeVCP: the results it can return for a series
analyzeVCP(data) ==
    IF TooFew(data) THEN {InsufficientData}
    ELSE LET recentData == SliceLast(SortByDate(data), 100)
         IN  {VCPResult(recentData, score) : score \in VCPScores(recentData)}

\* ------------------------------------------------------------------------
\* Series handed to the analyzer
\* ------------------------------------------------------------------------
\* a series of bars with consecutive timestamps, oldest first
Dated(series) ==
    [i \in 1..Len(series) |->
        Point(i, series[i].high, series[i].low, series[i].close,
              series[i].volume)]

Reversed(data) == [i \in 1..Len(data) |-> data[Len(data) + 1 - i]]

\* the points of a series in another order: every 7th, cyclically (a
\* rearrangement when the length has no factor 7)
Shuffled(data) ==
    [i \in 1..Len(data) |-> data[((i * 7) % Len(data)) + 1]]

\* 40 quiet bars
Short40Series == [i \in 1..40 |-> Point(i, 1010, 990, 1000, 500)]

\* 49 points with arbitrary values, newest first
Odd49Series ==
    [i \in 1..49 |-> Point(50 - i, ((i * 7) % 13) * 100, 0, (i % 3) * 500, 0)]

\* 50 points whose prices and volumes are all 0
ZeroSeries == [i \in 1..50 |-> Point(i, 0, 0, 0, 0)]

\* 50 bars that step from 100 to 110 dollars after the 30th
StepUpSeries ==
    [i \in 1..50 |->
        IF i <= 30 THEN Point(i, 1005, 995, 1000, 500)
        ELSE Point(i, 1105, 1095, 1100, 500)]

\* 50 bars trading between 95 and 105 dollars and closing at 100, but for
\* the last one, which closes 40 cents higher: the only return that is not
\* 0 falls into the last 5 bars
LateMoveSeries ==
    [i \in 1..50 |->
        Point(i, 1050, 950, IF i = 50 THEN 1004 ELSE 1000, 500)]

\* 120 bars: 80 at 80 dollars, 35 swinging between 100 and 101 dollars, and
\* 5 that close at 101 dollars on half the volume
ContractingSeries ==
    [i \in 1..120 |->
        IF i <= 80 THEN Point(i, 805, 795, 800, 1000)
        ELSE IF i <= 115
        THEN Point(i, 1015, 995, IF i % 2 = 0 THEN 1010 ELSE 1000, 1000)
        ELSE Point(i, 1015, 995, 1010, 500)]

\* the series getStockData hands to the scan and to the stock-data route
ScanInputs ==
    [empty       |-> << >>,
     short40     |-> Short40Series,
     odd49       |-> Odd49Series,
     quiet50     |-> Dated(QuietSeries),
     zero50      |-> ZeroSeries,
     stepUp50    |-> StepUpSeries,
     lateMove50  |-> LateMoveSeries,
     contracting |-> ContractingSeries,
     newestFirst |-> Reversed(ContractingSeries),
     shuffled    |-> Shuffled(LateMoveSeries)]

\* analyzeVCP on each of them
VcpOutcomes == [name \in DOMAIN ScanInputs |-> analyzeVCP(ScanInputs[name])]

\* ------------------------------------------------------------------------
\* The scan pipeline and the stock-data route
\* ------------------------------------------------------------------------
\* no scan has run yet
VcpInit ==
    /\ HomeInit
    /\ db = [x \in Instruments |-> NoRecord]
    /\ config = DefaultConfig
    /\ monitoringIntervals = EmptyMap
    /\ timers = << >>
    /\ tasks = EmptyBag
    /\ alertsSent = << >>
    /\ ev = Step("init")

\* performScan, for one holding: a holding without data is skipped, the
\* others are analyzed and stored
ScanStock(x, name) ==
    /\ UNCHANGED homeVars
    /\ ~db[x].exists
    /\ IF Len(ScanInputs[name]) = 0
       THEN /\ ev' = [type |-> "noData", id |-> x]
            /\ UNCHANGED db
       ELSE \E vcpResult \in VcpOutcomes[name] :
              /\ db' = [db EXCEPT ![x] =
                          StockScan(vcpResult.hasPattern,
                                    vcpResult.hasPattern /\ vcpResult.score > 75)]
              /\ ev' = [type |-> "scanned", id |-> x, input |-> name,
                        points |-> Len(ScanInputs[name]),
                        result |-> vcpResult]
    /\ UNCHANGED << config, monitoringIntervals, timers, tasks, alertsSent >>

\* GET /stock-data/[symbol]: 404 without data, else the analysis
StockDataGet(name) ==
    /\ UNCHANGED homeVars
    /\ IF Len(ScanInputs[name]) = 0
       THEN ev' = [type |-> "stockData", status |-> 404, input |-> name]
       ELSE \E vcpResult \in VcpOutcomes[name] :
              ev' = [type |-> "stockData", status |-> 200, input |-> name,
                     points |-> Len(ScanInputs[name]), result |-> vcpResult]
    /\ UNCHANGED << db, config, monitoringIntervals, timers, tasks, alertsSent >>

VcpNext ==
    \/ \E x \in Instruments, name \in DOMAIN ScanInputs : ScanStock(x, name)
    \/ \E name \in DOMAIN ScanInputs : StockDataGet(name)

VcpSpec == VcpInit /\ [][VcpNext]_vars

\* ------------------------------------------------------------------------
\* The strategies on windows of every length
\* ------------------------------------------------------------------------
\* 50 bars, the last of which closes 5% up on four times the volume
SpikeSeries ==
    [i \in 1..50 |->
        IF i < 50 THEN Bar(1010, 990, 1000, 500)
        ELSE Bar(1060, 1000, 1050, 2000)]

\* 50 bars, the last of which closes 5% down on four times the volume
DropSeries ==
    [i \in 1..50 |->
        IF i < 50 THEN Bar(1010, 990, 1000, 500)
        ELSE Bar(1000, 940, 950, 2000)]

\* 50 bars trading between 70 and 130 dollars, the last closing just above
\* the pivot
WideSeries ==
    [i \in 1..50 |-> Bar(1300, 700, IF i = 50 THEN 1005 ELSE 1000, 500)]

\* 50 bars without any range at 100 dollars, the last one a tick higher
FlatSeries ==
    [i \in 1..50 |->
        IF i < 50 THEN Bar(1000, 1000, 1000, 500)
        ELSE Bar(1001, 1000, 1001, 500)]

\* the longest history the provider returns here
MaxBars == 50

\* the histories getStockData can hand to analyzeTimeframe: the last k bars
\* of a series, for a listing that is k days old
WindowInputs ==
    [quiet  |-> QuietSeries,
     rising |-> RisingSeries,
     bounce |-> BounceSeries,
     spike  |-> SpikeSeries,
     drop   |-> DropSeries,
     wide   |-> WideSeries,
     flat   |-> FlatSeries]

\* what analyzeTimeframe computes from a history: the window, the result of
\* each strategy on it, and the signal it returns
StrategyResults(historicalData) ==
    LET recentData == RecentData(historicalData, "1d")
    IN  [bars            |-> Len(recentData),
         breakout        |-> checkBreakoutSignal(recentData),
         pivot           |-> checkPivotSignal(recentData),
         support         |-> checkSupportSignal(recentData),
         volume_spike    |-> checkVolumeSignal(recentData),
         moving_average  |-> checkMovingAverageSignal(recentData),
         best            |-> AnalyzeData(historicalData, "1d")]

\* StrategyResults on every history
WindowOutcomes ==
    [name \in DOMAIN WindowInputs |->
        SubSeq([k \in 1..MaxBars |->
                   StrategyResults(SliceLast(WindowInputs[name], k))],
               1, MaxBars)]

\* the five strategies
Strategies ==
    {"breakout", "pivot", "support", "volume_spike", "moving_average"}

\* analyzeTimeframe on a history of k bars
AnalyzeWindow(name, k) ==
    /\ UNCHANGED homeVars
    /\ ev' = [type |-> "analyzed", input |-> name, provided |-> k]
                @@ WindowOutcomes[name][k]
    /\ UNCHANGED << db, config, monitoringIntervals, timers, tasks,
                    alertsSent >>

\* analyzeTimeframe when the service has no bars: no strategy is called
AnalyzeNothing ==
    /\ UNCHANGED homeVars
    /\ ev' = [type |-> "analyzedNothing", best |-> AnalyzeData(<< >>, "1d")]
    /\ UNCHANGED << db, config, monitoringIntervals, timers, tasks,
                    alertsSent >>

StrategyNext ==
    \/ \E name \in DOMAIN WindowInputs, k \in 1..MaxBars :
          AnalyzeWindow(name, k)
    \/ AnalyzeNothing

StrategySpec == Init /\ [][StrategyNext]_vars

\* ------------------------------------------------------------------------
\* The dashboard's scan lock (Home.startScan, app/api/scans/[id]/start)
\* ------------------------------------------------------------------------
\* number of scans created in one behaviour
MaxScans == 3

\* the scan configurations the page lists
ConfigIds == {"c1", "c2"}

\* the configurations db.scanConfig still holds: "c2" was deleted after the
\* page loaded its list
StoredConfigs == {"c1"}

\* a startScan invocation awaiting the answer to its POST
StartScanTask(configId) == [configId |-> configId]

\* runningScans of the poll callback: the scans whose status is 'running'
runningScans == {i \in DOMAIN scans : scans[i] = "running"}

\* startScan up to its request: with the lock held it warns and returns,
\* otherwise it takes the lock and sends the POST
StartScanCall(configId) ==
    /\ IF scanningConfigId # "null"
          THEN /\ ev' = [type |-> "startScanRejected",
                         warning |-> "A scan is already running"]
               /\ UNCHANGED homeVars
          ELSE /\ scanningConfigId' = configId
               /\ startScans' = startScans (+) SetToBag({StartScanTask(configId)})
               /\ ev' = [type |-> "startScanCalled", id |-> configId]
               /\ UNCHANGED << pollIntervals, scans >>
    /\ UNCHANGED monitorVars

\* the route creates the scan as 'running' and answers OK; startScan
\* reloads the scans (loadScans catches its own errors) and arms the poll
StartScanOk(t) ==
    /\ BagIn(t, startScans)
    /\ t.configId \in StoredConfigs
    /\ Len(scans) < MaxScans
    /\ scans' = Append(scans, "running")
    /\ startScans' = startScans (-) SetToBag({t})
    /\ pollIntervals' = pollIntervals + 1
    /\ ev' = [type |-> "startScanStarted", id |-> t.configId]
    /\ UNCHANGED scanningConfigId
    /\ UNCHANGED monitorVars

\* the route answers 404 for a configuration it does not find and 500 when
\* it throws: startScan shows the error, and its finally block is empty
StartScanNotOk(t, status) ==
    /\ BagIn(t, startScans)
    /\ status = 404 => t.configId \notin StoredConfigs
    /\ startScans' = startScans (-) SetToBag({t})
    /\ ev' = [type |-> "startScanFailed", id |-> t.configId,
              how |-> "notOk", status |-> status]
    /\ UNCHANGED << scanningConfigId, pollIntervals, scans >>
    /\ UNCHANGED monitorVars

\* the fetch rejects: the catch block shows the error, and the finally
\* block is empty
StartScanThrows(t) ==
    /\ BagIn(t, startScans)
    /\ startScans' = startScans (-) SetToBag({t})
    /\ ev' = [type |-> "startScanFailed", id |-> t.configId,
              how |-> "thrown", status |-> 0]
    /\ UNCHANGED << scanningConfigId, pollIntervals, scans >>
    /\ UNCHANGED monitorVars

\* performScan ends: the scan becomes 'completed', or 'failed' in its catch
PerformScanEnds(i, status) ==
    /\ i \in runningScans
    /\ scans' = [scans EXCEPT ![i] = status]
    /\ ev' = [type |-> "scanEnded", status |-> status]
    /\ UNCHANGED << scanningConfigId, startScans, pollIntervals >>
    /\ UNCHANGED monitorVars

\* one run of the poll callback: with no scan running it clears its timer
\* and releases the lock
PollTick ==
    /\ pollIntervals > 0
    /\ IF runningScans = {}
          THEN /\ pollIntervals' = pollIntervals - 1
               /\ scanningConfigId' = "null"
               /\ ev' = [type |-> "pollCompleted"]
               /\ UNCHANGED << startScans, scans >>
          ELSE /\ ev' = [type |-> "polled"]
               /\ UNCHANGED homeVars
    /\ UNCHANGED monitorVars

\* a run of the poll callback whose fetch of /api/scans rejects: the
\* callback ends there and the timer stays
PollFails ==
    /\ pollIntervals > 0
    /\ ev' = [type |-> "pollFailed"]
    /\ UNCHANGED homeVars
    /\ UNCHANGED monitorVars

HomeTaskSet == {StartScanTask(c) : c \in ConfigIds}

HomeNext ==
    \/ \E c \in ConfigIds : StartScanCall(c)
    \/ \E t \in HomeTaskSet : StartScanOk(t)
    \/ \E t \in HomeTaskSet, status \in {404, 500} : StartScanNotOk(t, status)
    \/ \E t \in HomeTaskSet : StartScanThrows(t)
    \/ \E i \in 1..MaxScans, status \in {"completed", "failed"} :
          PerformScanEnds(i, status)
    \/ PollTick
    \/ PollFails

HomeSpec == VcpInit /\ [][HomeNext]_vars

\* ------------------------------------------------------------------------
\* Status
\* ------------------------------------------------------------------------
\* the symbol stored with each record by the scan (symbol: holding.symbol)
SymbolOf == [x \in Instruments |-> IF x = "s1" THEN "AAPL" ELSE "MSFT"]

\* getMonitoringStatus: one item per key of the map; the symbol is the
\* literal 'Unknown' and the interval is read from the configuration
\* (startTime, the time of the call, is left out)
getMonitoringStatus ==
    {[stockScanId |-> x, symbol |-> "Unknown", interval |-> config.checkInterval] :
        x \in DOMAIN monitoringIntervals}

\* ------------------------------------------------------------------------
\* Vocabulary of the properties
\* ------------------------------------------------------------------------
\* the timers of x that have not been cleared
LiveTimers(x) == {h \in DOMAIN timers : timers[h].live /\ timers[h].id = x}

\* the events in which a check ends
CheckEnds == {"checkError", "recordGone", "noSignal", "handled",
              "writeFailed", "alertFailed"}

\* some check of x has a qualifying signal in hand (it is inside
\* handleEntrySignal)
HoldsSignal(x) == \E t \in TaskSet : t.id = x /\ t.pc \in {"update", "send"}

\* this step is a timer callback of x beginning a check
TickBegins(x) ==
    \E h \in DOMAIN timers :
        /\ timers[h].live
        /\ timers[h].id = x
        /\ tasks' = AddTask(tasks, Task("tick", x, "find", h, << >>, NoSignal))

\* ------------------------------------------------------------------------
\* C1: within one watch lifecycle (one registered timer handle) the
\* notification collaborator is called at most once, whatever the
\* interleaving of the immediate check and the timer ticks.
\* ------------------------------------------------------------------------
C1_AtMostOneAlertPerLifecycle ==
    \A h \in DOMAIN alertsSent : alertsSent[h] <= 1

\* ------------------------------------------------------------------------
\* C2: once a check of x has produced a qualifying signal, x's timer starts
\* no further check.
\* ------------------------------------------------------------------------
C2_NoCheckAfterSignal ==
    [][\A x \in Instruments : HoldsSignal(x) => ~TickBegins(x)]_vars

\* ------------------------------------------------------------------------
\* C3 as stated: when a startMonitoring(x) that registered x returns, x
\* still has a record with a pattern match and nobody stopped x in the
\* meantime, the registry holds the entry of x and exactly one live timer.
\* ------------------------------------------------------------------------
C3_EntryWhenStartReturns ==
    (/\ ev.type \in CheckEnds
     /\ ev.kind = "api"
     /\ ~ev.stopped
     /\ Eligible(db[ev.id]))
    => (Watching(ev.id) /\ Cardinality(LiveTimers(ev.id)) = 1)

\* C3 as amended: when startMonitoring(x) registers its timer the registry
\* holds exactly one entry for x, which is the new timer and the only live
\* timer of x (an earlier one has been cleared); and at no time does an
\* instrument have two live timers.
C3_StartReplaces ==
    /\ \A x \in Instruments : Cardinality(LiveTimers(x)) <= 1
    /\ ev.type = "registered" =>
         /\ Watching(ev.id)
         /\ monitoringIntervals[ev.id] = Len(timers)
         /\ LiveTimers(ev.id) = {Len(timers)}

\* a second startMonitoring(x) has just replaced the entry of x
C3_Witness ==
    /\ ev.type = "registered"
    /\ ev.replaced
    /\ Len(timers) = 2
    /\ timers[1] = Cleared

\* ------------------------------------------------------------------------
\* C4: startMonitoring of an instrument without an eligible record fails
\* with an error that reaches the caller, so the route reports the failure.
\* ------------------------------------------------------------------------
C4_NotEligibleReachesCaller ==
    (ev.type = "startFailed" /\ ev.kind = "api" /\ ev.reason = "notEligible")
    => (ev.settled = "rejected" /\ ev.status = 500)

\* ------------------------------------------------------------------------
\* C5: the checks of one instrument are strictly sequential: never two in
\* flight at once.
\* ------------------------------------------------------------------------
C5_ChecksSequential ==
    \A x \in Instruments : ChecksInFlight(x) <= 1

\* ------------------------------------------------------------------------
\* C6: after stopMonitoring(x) or stopAllMonitoring() was called while a
\* check of x is in flight, that check never re-registers x or re-arms a
\* timer for it: as long as it is in flight, and when it completes, x has
\* no registry entry and no live timer (unless a startMonitoring has
\* registered x again in between).
\* ------------------------------------------------------------------------
C6_StoppedCheckNeverRearms ==
    /\ \A t \in TaskSet :
         t.stopped => (~Watching(t.id) /\ LiveTimers(t.id) = {})
    /\ (ev.type \in CheckEnds /\ ev.stopped) =>
         (~Watching(ev.id) /\ LiveTimers(ev.id) = {})

\* a check that was stopped in flight has just completed without a signal
C6_Witness ==
    /\ ev.type = "noSignal"
    /\ ev.stopped
    /\ ~Watching(ev.id)

\* ------------------------------------------------------------------------
\* C7: when the store write or the alert dispatch fails while a check is
\* handling a qualifying signal, the instrument stays Watching with its
\* timer armed.
\* ------------------------------------------------------------------------
C7_HandlerFailureKeepsWatching ==
    [][ev'.type \in {"writeFailed", "alertFailed"} =>
         (Watching(ev'.id) =>
            /\ ev'.id \in DOMAIN monitoringIntervals'
            /\ monitoringIntervals'[ev'.id] = monitoringIntervals[ev'.id]
            /\ timers'[monitoringIntervals[ev'.id]].live)]_vars

\* ------------------------------------------------------------------------
\* C8: an error raised inside a check (a failing store read, store write or
\* alert dispatch) does not escape it and leaves the registry and the
\* timers as they were.
\* ------------------------------------------------------------------------
C8_ErrorLeavesScheduleAlone ==
    [][ev'.type \in {"checkError", "writeFailed", "alertFailed"} =>
         /\ monitoringIntervals' = monitoringIntervals
         /\ timers' = timers]_vars

\* ------------------------------------------------------------------------
\* C9: a tick whose market-data request failed or returned no bars yields
\* no signal, so nothing is handed to handleEntrySignal.
\* ------------------------------------------------------------------------
C9_NoSignalWithoutData ==
    ev.type = "signal" =>
        ev.source \notin {"quoteFailed", "historicalFailed", "emptySeries"}

\* ------------------------------------------------------------------------
\* C10 as stated: when a restart triggered by updateConfig has completed,
\* its instrument is Watching with a timer armed at the configured
\* checkInterval.
\* ------------------------------------------------------------------------
C10_RestartLeavesWatching ==
    (/\ ev.type \in CheckEnds \cup {"startFailed"}
     /\ ev.kind = "restart")
    => /\ Watching(ev.id)
       /\ timers[monitoringIntervals[ev.id]].interval = config.checkInterval

\* C10 as amended: updateConfig merges the given fields into the config,
\* removes every entry and leaves one pending restart per instrument that
\* was Watching; a restart that finds an eligible record registers the
\* instrument with a live timer armed at the checkInterval then configured.
C10_UpdateRestarts ==
    [][/\ ev'.type = "configUpdated" =>
            /\ \E p \in ConfigUpdates :
                 \A f \in DOMAIN config :
                    config'[f] = IF f \in DOMAIN p THEN p[f] ELSE config[f]
            /\ ev'.active = DOMAIN monitoringIntervals
            /\ monitoringIntervals' = EmptyMap
            /\ \A x \in ev'.active :
                 /\ LiveTimers(x)' = {}
                 /\ \E t \in BagToSet(tasks') :
                      t.kind = "restart" /\ t.id = x /\ t.pc = "lookup"
       /\ (ev'.type = "registered" /\ ev'.kind = "restart") =>
            /\ ev'.id \in DOMAIN monitoringIntervals'
            /\ timers'[monitoringIntervals'[ev'.id]]
                 = Timer(ev'.id, config.checkInterval)
            /\ config' = config]_vars

\* a restart has just registered its instrument at the new interval
C10_Witness ==
    /\ ev.type = "registered"
    /\ ev.kind = "restart"
    /\ config.checkInterval = 5
    /\ Watching(ev.id)
    /\ timers[monitoringIntervals[ev.id]].interval = 5

\* ------------------------------------------------------------------------
\* C11: stopMonitoring(x) for an instrument without entry raises no error
\* and leaves the registry and every timer as they were; and a
\* stopMonitoring(x) never touches the entry or the timer of another
\* instrument.
\* ------------------------------------------------------------------------
C11_StopIdleIsNoOp ==
    [][ev'.type = "stopCalled" =>
         /\ ~ev'.active =>
              /\ ev'.status = 200
              /\ monitoringIntervals' = monitoringIntervals
              /\ timers' = timers
         /\ \A y \in Instruments \ {ev'.id} :
              /\ Watching(y)' = Watching(y)
              /\ LiveTimers(y)' = LiveTimers(y)]_vars

\* stopMonitoring has just been called for an instrument without entry
\* while another instrument is Watching
C11_Witness ==
    /\ ev.type = "stopCalled"
    /\ ~ev.active
    /\ \E y \in Instruments \ {ev.id} : Watching(y) /\ LiveTimers(y) # {}

\* ------------------------------------------------------------------------
\* C12: when stopAllMonitoring() returns the registry is empty and no timer
\* is live any more, whatever set of instruments was Watching before.
\* ------------------------------------------------------------------------
C12_StopAllClearsEverything ==
    ev.type = "stopAllCalled" =>
        /\ monitoringIntervals = EmptyMap
        /\ \A h \in DOMAIN timers : ~timers[h].live
        /\ \A x \in Instruments : LiveTimers(x) = {}

\* stopAllMonitoring has just returned after stopping two instruments
C12_Witness ==
    /\ ev.type = "stopAllCalled"
    /\ ev.active = Instruments
    /\ monitoringIntervals = EmptyMap
    /\ Len(timers) = 2

\* ------------------------------------------------------------------------
\* C13: a check that finds no stored record for its instrument removes the
\* entry, cancels the timer, writes nothing to the store, sends no alert and
\* ends without raising an error.
\* ------------------------------------------------------------------------
C13_RecordGoneStopsQuietly ==
    [][\A x \in Instruments :
         (ev'.type = "recordGone" /\ ev'.id = x) =>
            /\ ~Watching(x)'
            /\ LiveTimers(x)' = {}
            /\ \A y \in Instruments \ {x} :
                 Watching(y)' = Watching(y) /\ LiveTimers(y)' = LiveTimers(y)
            /\ db' = db
            /\ \A h \in DOMAIN alertsSent : alertsSent'[h] <= alertsSent[h]
            /\ ev'.kind = "api" => ev'.status = 200]_vars

\* a timer tick has just found the record of a Watching instrument deleted
C13_Witness ==
    /\ ev.type = "recordGone"
    /\ ev.kind = "tick"
    /\ ev.watching
    /\ ~ev.stopped
    /\ ~Watching(ev.id)
    /\ ~db[ev.id].exists

\* ------------------------------------------------------------------------
\* C14: a check that found a qualifying signal first writes it to the
\* stored record, then calls the notifier, then removes the entry.  Nothing
\* is written, sent or removed in the step that finds the signal; the
\* notifier is called only when enableEmailAlerts is set, only on a record
\* that already carries the signal, and with the registry untouched; the
\* check that ends "handled" leaves the instrument without entry and
\* timer, and when alerts are disabled it has still written the signal.
\* ------------------------------------------------------------------------
C14_PersistAlertStop ==
    [][\A x \in Instruments :
         /\ ev'.type = "signal" =>
              /\ db' = db
              /\ monitoringIntervals' = monitoringIntervals
              /\ timers' = timers
              /\ \A h \in DOMAIN alertsSent : alertsSent'[h] <= alertsSent[h]
         /\ (\E h \in DOMAIN alertsSent : alertsSent'[h] > alertsSent[h]) =>
              /\ ev'.type = "alertCalled"
              /\ config.enableEmailAlerts
         /\ (ev'.type = "alertCalled" /\ ev'.id = x) =>
              /\ db'[x].exists /\ db'[x].entrySignal
              /\ monitoringIntervals' = monitoringIntervals
              /\ timers' = timers
              /\ \E h \in DOMAIN alertsSent :
                   alertsSent'[h] = alertsSent[h] + 1
         /\ (ev'.type = "handled" /\ ev'.id = x) =>
              /\ ~Watching(x)'
              /\ LiveTimers(x)' = {}
              /\ ev'.alerted =>
                   \E t \in TaskSet : t.id = x /\ t.pc = "send"
              /\ ~ev'.alerted =>
                   /\ ~config.enableEmailAlerts
                   /\ db'[x].exists /\ db'[x].entrySignal
                   /\ \A h \in DOMAIN alertsSent :
                        alertsSent'[h] <= alertsSent[h]]_vars

\* a check has written its signal, sent the alert and then removed the
\* entry
C14_Witness ==
    /\ ev.type = "handled"
    /\ ev.alerted
    /\ ~ev.stopped
    /\ db[ev.id].exists
    /\ db[ev.id].entrySignal
    /\ ~Watching(ev.id)

\* the non-none results of the five strategies on a window
StrategyOutputs(data) ==
    {checkBreakoutSignal(data), checkPivotSignal(data),
     checkSupportSignal(data), checkVolumeSignal(data),
     checkMovingAverageSignal(data)} \ {NoSignal}

\* on every series the service can return, for every timeframe, the result
\* of analyzeTimeframe is a non-none strategy result of highest confidence,
\* and none when no strategy fires
BestOfStrategies ==
    \A tf \in Timeframes :
      \A series \in (ProviderSeries \cup FallbackSeries) \ {<< >>} :
        LET outs == StrategyOutputs(RecentData(series, tf))
            r    == AnalyzeData(series, tf)
        IN  IF outs = {} THEN r = NoSignal
            ELSE /\ r \in outs
                 /\ \A o \in outs : FracGeq(r.confidence, o.confidence)

\* number of checks waiting for the market data of a timeframe
Fetching(b) ==
    LET S == {t \in BagToSet(b) : t.pc = "fetch"}
    IN  BagCardinality([t \in S |-> b[t]])

\* ------------------------------------------------------------------------
\* C15: the result of a timeframe is the highest-confidence non-none
\* strategy result; a check walks config.timeframes in order, acts on the
\* result of the first timeframe whose confidence is >= minConfidence and
\* evaluates no timeframe after it; a check in which no timeframe qualifies
\* writes nothing and sends nothing.
\* ------------------------------------------------------------------------
C15_FirstQualifyingTimeframe ==
    [][/\ BestOfStrategies
       /\ ev'.type = "found" =>
            \E t \in TaskSet :
               /\ t.pc = "find"
               /\ tasks' = AddTask(RemoveTask(tasks, t),
                                   [t EXCEPT !.pc = "fetch",
                                             !.rest = config.timeframes])
       /\ Fetching(tasks') > Fetching(tasks) => ev'.type = "found"
       /\ ev'.type = "nextTimeframe" =>
            /\ ~Qualifies(ev'.signal, config)
            /\ \E t \in TaskSet :
                 /\ t.pc = "fetch"
                 /\ tasks' = AddTask(RemoveTask(tasks, t),
                                     [t EXCEPT !.rest = Tail(t.rest)])
       /\ ev'.type = "signal" =>
            /\ Qualifies(ev'.signal, config)
            /\ \E t \in TaskSet :
                 /\ t.pc = "fetch"
                 /\ \E o \in AnalysisOutcomes[Head(t.rest)] :
                      o.signal = ev'.signal
                 /\ tasks' = AddTask(RemoveTask(tasks, t),
                                     [t EXCEPT !.pc = "update",
                                               !.sig = ev'.signal])
       /\ ev'.type = "noSignal" =>
            /\ ~Qualifies(ev'.signal, config)
            /\ db' = db
            /\ \A h \in DOMAIN alertsSent : alertsSent'[h] <= alertsSent[h]
       /\ db' # db =>
            \/ ev'.type = "scansDeleted"
            \/ \E t \in TaskSet : t.pc = "update" /\ Qualifies(t.sig, config)
       ]_vars

\* a check acts on the result of its second timeframe, the first one not
\* having qualified, and the result is the best of three strategy results
C15_Witness ==
    /\ ev.type = "signal"
    /\ \E t \in TaskSet :
         /\ t.pc = "update"
         /\ Len(t.rest) = 1
         /\ t.sig = ev.signal
         /\ Cardinality(StrategyOutputs(RisingSeries)) = 3
         /\ t.sig = AnalyzeData(RisingSeries, Head(t.rest))

\* ------------------------------------------------------------------------
\* C16: the window a check evaluates for a timeframe is derived from the
\* timeframe (at most 7 daily bars for '1h', 14 for '4h', 30 otherwise),
\* so the two timeframes a check still has to evaluate get different
\* windows of the same series.
\* ------------------------------------------------------------------------
C16_WindowPerTimeframe ==
    \A t \in TaskSet :
        t.pc = "fetch" =>
          \A series \in {RisingSeries, BounceSeries} :
            /\ Len(RecentData(series, Head(t.rest)))
                  <= WindowDays(Head(t.rest))
            /\ (Len(t.rest) >= 2 /\ t.rest[1] # t.rest[2]) =>
                  RecentData(series, t.rest[1]) # RecentData(series, t.rest[2])

\* number of checks in flight that are the immediate check of a
\* startMonitoring call (made by the route or by updateConfig)
ImmediateChecks(b) ==
    LET S == {t \in BagToSet(b) : t.kind \in {"api", "restart"} /\ InCheck(t)}
    IN  BagCardinality([t \in S |-> b[t]])

\* ------------------------------------------------------------------------
\* C17: a startMonitoring that finds an eligible record arms the timer at
\* config.checkInterval and goes on as one immediate check; immediate
\* checks begin only there, and the call returns in the step in which its
\* immediate check ends.
\* ------------------------------------------------------------------------
C17_OneImmediateCheck ==
    [][\A x \in Instruments :
         /\ (ev'.type = "registered" /\ ev'.id = x) =>
              /\ Watching(x)'
              /\ timers'[monitoringIntervals'[x]] = Timer(x, config.checkInterval)
              /\ \E t \in TaskSet :
                   /\ t.pc = "lookup" /\ t.id = x /\ t.kind = ev'.kind
                   /\ CopiesIn(t, tasks') = CopiesIn(t, tasks) - 1
              /\ \E c \in BagToSet(tasks') :
                   /\ c.kind = ev'.kind /\ c.id = x /\ c.pc = "find"
                   /\ c.lc = monitoringIntervals'[x]
                   /\ CopiesIn(c, tasks') = CopiesIn(c, tasks) + 1
              /\ ImmediateChecks(tasks') = ImmediateChecks(tasks) + 1
         /\ ImmediateChecks(tasks') > ImmediateChecks(tasks) =>
              ev'.type = "registered"
         /\ ImmediateChecks(tasks') < ImmediateChecks(tasks) =>
              /\ ev'.type \in CheckEnds
              /\ ev'.kind \in {"api", "restart"}
              /\ ImmediateChecks(tasks') = ImmediateChecks(tasks) - 1
         /\ (ev'.type \in CheckEnds /\ ev'.kind = "api") =>
              /\ ev'.status = 200
              /\ ImmediateChecks(tasks') = ImmediateChecks(tasks) - 1]_vars

\* a startMonitoring has returned after an immediate check without signal:
\* the instrument is Watching on a timer armed at the configured interval
C17_Witness ==
    /\ ev.type = "noSignal"
    /\ ev.kind = "api"
    /\ ~ev.stopped
    /\ Watching(ev.id)
    /\ timers[monitoringIntervals[ev.id]] = Timer(ev.id, config.checkInterval)

\* ------------------------------------------------------------------------
\* C18: getMonitoringStatus returns exactly one item per instrument in the
\* registry and none for any other, each with the instrument's id, its
\* symbol and the configured check interval.
\* ------------------------------------------------------------------------
C18_StatusItems ==
    /\ {i.stockScanId : i \in getMonitoringStatus} = DOMAIN monitoringIntervals
    /\ Cardinality(getMonitoringStatus) = Cardinality(DOMAIN monitoringIntervals)
    /\ \A i \in getMonitoringStatus :
         /\ i.symbol = SymbolOf[i.stockScanId]
         /\ i.interval = config.checkInterval

\* the analysis returned in the step just taken, if there was one
Analyzed == ev.type \in {"scanned", "stockData"} /\ "result" \in DOMAIN ev

\* ------------------------------------------------------------------------
\* C19: for every series of fewer than 50 points, whatever its values,
\* analyzeVCP returns hasPattern = false, score = 0, baseCount = 0, no entry
\* points and the description "Insufficient data for analysis".
\* ------------------------------------------------------------------------
C19_InsufficientData ==
    /\ \A name \in DOMAIN ScanInputs :
         Len(ScanInputs[name]) < 50 => VcpOutcomes[name] = {InsufficientData}
    /\ (Analyzed /\ ev.points < 50) =>
         /\ ev.result.hasPattern = FALSE
         /\ ev.result.score = 0
         /\ ev.result.baseCount = 0
         /\ ev.result.entryPoints = << >>
         /\ ev.result.description = << "Insufficient data for analysis" >>
         /\ ev.type = "scanned" => db[ev.id] = StockScan(FALSE, FALSE)

\* the scan has just analyzed a series of 49 points with arbitrary values
C19_Witness ==
    /\ ev.type = "scanned"
    /\ ev.input = "odd49"
    /\ ev.points = 49
    /\ ev.result = InsufficientData
    /\ db[ev.id] = StockScan(FALSE, FALSE)

LatestClose(data) ==
    LET i == CHOOSE k \in 1..Len(data) :
                \A j \in 1..Len(data) : data[j].date <= data[k].date
    IN  data[i].close

\* ------------------------------------------------------------------------
\* C21: the entry points of every result are ordered by confidence
\* descending and, for a series of at least 50 points, hold the pivot
\* candidate at the current close with confidence 60.
\* ------------------------------------------------------------------------
C21_EntryPointsOrdered ==
    Analyzed =>
       LET points == ev.result.entryPoints
       IN  /\ \A i \in 1..Len(points) : \A j \in i..Len(points) :
                points[i].confidence >= points[j].confidence
           /\ ev.points >= 50 =>
                \E i \in 1..Len(points) :
                   points[i] =
                      EntryPoint("pivot",
                                 Frac(LatestClose(ScanInputs[ev.input]), 1), 60)

\* a result with the three candidates, breakout before pivot before support
C21_Witness ==
    /\ Analyzed
    /\ ev.points >= 50
    /\ Len(ev.result.entryPoints) = 3
    /\ ev.result.entryPoints[1].confidence = 75
    /\ ev.result.entryPoints[2].type = "pivot"
    /\ ev.result.entryPoints[3].confidence = 45


\* the points of a series, as a set
PointsOf(data) == {data[i] : i \in 1..Len(data)}

\* no two points of the series have the same timestamp
DistinctTimestamps(data) ==
    \A i, j \in 1..Len(data) : data[i].date = data[j].date => i = j

\* two series that hold the same points, each once, in some order
SamePoints(a, b) ==
    /\ Len(a) = Len(b)
    /\ PointsOf(a) = PointsOf(b)
    /\ DistinctTimestamps(a)
    /\ DistinctTimestamps(b)

\* ------------------------------------------------------------------------
\* C22: analyzeVCP is deterministic and independent of the order of its
\* input: two calls on the same points with distinct timestamps, in any
\* order, return equal results.
\* ------------------------------------------------------------------------
C22_OrderIndependent ==
    [][(/\ Analyzed
        /\ Analyzed'
        /\ SamePoints(ScanInputs[ev.input], ScanInputs[ev'.input]))
       => /\ ev'.result = ev.result
          /\ VcpOutcomes[ev'.input] = {ev.result}]_vars

\* the analyzer has just run on the late-move series in another order and
\* returned what it returns for the series in order of date
C22_Witness ==
    /\ ev.type = "stockData"
    /\ ev.status = 200
    /\ ev.input = "shuffled"
    /\ ScanInputs["shuffled"] # LateMoveSeries
    /\ SamePoints(ScanInputs["shuffled"], LateMoveSeries)
    /\ VcpOutcomes["shuffled"] = VcpOutcomes["lateMove50"]
    /\ \E x \in Instruments :
          /\ db[x].exists
          /\ ~db[x].hasVcpPattern


\* the support level of a series: the lowest low of the last 20 bars by
\* date, the latest left out
SupportLevel(data) ==
    SeqMin(SliceDropLast(SliceLast(SortByDate(data), 20), 1), "low")

\* the result just returned holds a support-bounce candidate of confidence
\* 45 priced at percent / 100 of the support level
BounceAt(percent) ==
    \E i \in 1..Len(ev.result.entryPoints) :
       LET e == ev.result.entryPoints[i]
       IN  /\ e.type = "support"
           /\ e.confidence = 45
           /\ e.price.n * 100
                 = percent * SupportLevel(ScanInputs[ev.input]) * e.price.d

\* ------------------------------------------------------------------------
\* C23: for a series of at least 50 points the result holds a support-bounce
\* entry point, priced 1% above the support level with confidence 45,
\* exactly when the support level is more than 2% below the current close.
\* The candidate is there when it should be, priced 1% below the support.
\* ------------------------------------------------------------------------
C23_SupportBounceAbove ==
    (Analyzed /\ ev.points >= 50) =>
       (BounceAt(101) <=>
           100 * SupportLevel(ScanInputs[ev.input])
              < 98 * LatestClose(ScanInputs[ev.input]))


\* the minimum window length of each strategy: its first test
MinimumBars ==
    [breakout       |-> 20,
     pivot          |-> 15,
     support        |-> 20,
     volume_spike   |-> 10,
     moving_average |-> 50]

\* ------------------------------------------------------------------------
\* C24: each of the five strategies returns none whenever its window is
\* shorter than its own minimum length, each minimum lies between 10 and 50
\* bars, and the moving-average strategy returns none below 50 bars.
\* ------------------------------------------------------------------------
C24_NoneBelowMinimum ==
    /\ \A strategy \in Strategies : MinimumBars[strategy] \in 10..50
    /\ ev.type = "analyzed" =>
         /\ \A strategy \in Strategies :
               ev.bars < MinimumBars[strategy] => ev[strategy] = NoSignal
         /\ ev.bars < 50 => ev.moving_average = NoSignal

\* a window of 19 bars, one short for the breakout strategy, on which the
\* volume strategy, which asks for 10, fires; and each strategy fires on
\* some window of exactly its minimum length
C24_Witness ==
    /\ ev.type = "analyzed"
    /\ ev.input = "spike"
    /\ ev.bars = 19
    /\ ev.breakout = NoSignal
    /\ ev.volume_spike.signalType = "volume_spike"
    /\ ev.best.signalType = "volume_spike"
    /\ \A strategy \in Strategies :
          \E name \in DOMAIN WindowInputs :
             WindowOutcomes[name][MinimumBars[strategy]][strategy] # NoSignal


FracSub(a, b) == Frac(a.n * b.d - b.n * a.d, a.d * b.d)

\* riskRewardRatio of a signal that looks upward:
\* (targetPrice - currentPrice) / (currentPrice - stopLoss)
riskRewardRatio(signal) ==
    [n |-> FracSub(signal.targetPrice, signal.currentPrice),
     d |-> FracSub(signal.currentPrice, signal.stopLoss)]

\* every price of the window is positive and low <= close <= high
WellFormed(data) ==
    \A i \in 1..Len(data) :
       /\ data[i].low > 0
       /\ data[i].low <= data[i].close
       /\ data[i].close <= data[i].high

\* the history analyzed in the step just taken
AnalyzedHistory == SliceLast(WindowInputs[ev.input], ev.provided)

\* priceChange > 0 in checkVolumeSignal
Bullish(data) == data[Len(data)].close > data[Len(data) - 1].close

\* the signals of the step just taken that look upward
UpwardSignals ==
    {ev[strategy] :
        strategy \in {"breakout", "pivot", "support", "moving_average"}}
      \cup (IF ev.bars >= 2 /\ Bullish(AnalyzedHistory)
            THEN {ev.volume_spike} ELSE {})

\* ------------------------------------------------------------------------
\* C29: on windows of bars with positive prices and low <= close <= high,
\* every breakout, pivot, support, moving-average and bullish volume-spike
\* signal has stopLoss < currentPrice <= targetPrice, so the denominator of
\* its riskRewardRatio is positive and the ratio is not negative.
\* ------------------------------------------------------------------------
C29_StopBelowPriceBelowTarget ==
    (ev.type = "analyzed" /\ WellFormed(AnalyzedHistory)) =>
       \A signal \in UpwardSignals \ {NoSignal} :
          /\ FracLt(signal.stopLoss, signal.currentPrice)
          /\ FracGeq(signal.targetPrice, signal.currentPrice)
          /\ riskRewardRatio(signal).d.n > 0
          /\ riskRewardRatio(signal).n.n >= 0

\* a window on which the breakout strategy and the volume strategy, on a
\* rise, both fire; and each of the other three fires on some window
C29_Witness ==
    /\ ev.type = "analyzed"
    /\ WellFormed(AnalyzedHistory)
    /\ ev.breakout # NoSignal
    /\ ev.volume_spike # NoSignal
    /\ Bullish(AnalyzedHistory)
    /\ {ev.breakout, ev.volume_spike} \subseteq UpwardSignals
    /\ \A strategy \in {"pivot", "support", "moving_average"} :
          \E name \in DOMAIN WindowInputs, k \in 1..MaxBars :
             WindowOutcomes[name][k][strategy] # NoSignal


\* ------------------------------------------------------------------------
\* C25: after stopMonitoring(x) or stopAllMonitoring() has returned, x does
\* not become Watching again unless startMonitoring(x) or updateConfig is
\* called afterwards; in particular the step that follows the stop, in which
\* no call has been made yet, does not register a timer for x on behalf of
\* a startMonitoring(x) or of a restart that was waiting on its lookup.
\* ------------------------------------------------------------------------
C25_NoRegistrationAfterStop ==
    [][\A x \in Instruments :
          (\/ ev.type = "stopCalled" /\ ev.id = x
           \/ ev.type = "stopAllCalled")
          => ~(ev'.type = "registered" /\ ev'.id = x /\ Watching(x)')]_vars

\* the check t began under a timer that is no longer the registered one of
\* its instrument, which has been stopped and started again
Stale(t) ==
    /\ InCheck(t)
    /\ Watching(t.id)
    /\ monitoringIntervals[t.id] # t.lc

\* this step is a step of the check t
Acts(t) ==
    /\ CopiesIn(t, tasks') < CopiesIn(t, tasks)
    /\ ev'.type \notin {"stopCalled", "stopAllCalled", "configUpdated",
                        "registered"}

\* ------------------------------------------------------------------------
\* C26: a check that began in an earlier watch lifecycle of x and goes on
\* after x was stopped and started again never removes the entry of the new
\* lifecycle or cancels its timer, and never persists a signal or dispatches
\* an alert.
\* ------------------------------------------------------------------------
C26_StaleCheckIsHarmless ==
    [][\A t \in TaskSet :
          (Stale(t) /\ Acts(t))
          => /\ monitoringIntervals' = monitoringIntervals
             /\ timers' = timers
             /\ db' = db
             /\ ev'.type # "alertCalled"]_vars

\* ------------------------------------------------------------------------
\* C27: in every reachable state each instrument has at most one live
\* timer, and a timer is live exactly when it is the handle the registry
\* holds for its instrument: no orphaned timer keeps firing.
\* ------------------------------------------------------------------------
C27_LiveIffRegistered ==
    /\ \A x \in Instruments : Cardinality(LiveTimers(x)) <= 1
    /\ \A h \in DOMAIN timers :
          timers[h].live <=>
             \E x \in DOMAIN monitoringIntervals :
                monitoringIntervals[x] = h /\ timers[h].id = x

\* both instruments are watched, each by its own live timer, while a check
\* is in flight
C27_Witness ==
    /\ DOMAIN monitoringIntervals = Instruments
    /\ \A x \in Instruments :
          LiveTimers(x) = {monitoringIntervals[x]}
    /\ Len(timers) = 2
    /\ \E t \in TaskSet : InCheck(t)

\* ------------------------------------------------------------------------
\* C28: every timer the registry holds was armed with the checkInterval of
\* the current configuration, so the interval getMonitoringStatus reports
\* for an instrument is the interval of its timer.
\* ------------------------------------------------------------------------
C28_RegisteredAtCurrentInterval ==
    /\ \A x \in DOMAIN monitoringIntervals :
          timers[monitoringIntervals[x]].interval = config.checkInterval
    /\ \A item \in getMonitoringStatus :
          item.interval = timers[monitoringIntervals[item.stockScanId]].interval

\* after an updateConfig that changed the interval, an instrument is
\* watched by a timer armed at the new interval, its old timer cleared,
\* and the status reports it
C28_Witness ==
    /\ config.checkInterval # DefaultCheckInterval
    /\ Len(timers) = 2
    /\ timers[1] = Cleared
    /\ \E x \in Instruments :
          /\ Watching(x)
          /\ monitoringIntervals[x] = 2
          /\ timers[2].interval = config.checkInterval
          /\ \E item \in getMonitoringStatus :
                item.stockScanId = x /\ item.interval = timers[2].interval

\* C30: in the dashboard the scan lock is held only while a scan is
\* starting or running: a startScan whose request fails (a response that
\* is not OK, or a thrown error) leaves the lock released, and a startScan
\* is rejected with 'A scan is already running' only while a request is in
\* flight, a scan is running, or a poll has yet to see that it ended.
C30_FailedStartReleasesLock ==
    /\ ev.type = "startScanFailed" => scanningConfigId = "null"
    /\ ev.type = "startScanRejected"
         => \/ startScans # EmptyBag
            \/ runningScans # {}
            \/ pollIntervals > 0

====
